---- MODULE Spec2Model ----
(***************************************************************************)
(* wasm-stack-trace: the symbolication core of src/src/lib.rs.             *)
(*                                                                         *)
(* The host calls two entry points, init(len) and address_to_frame(addr),  *)
(* and receives results through the callbacks on_frame and on_error.  The  *)
(* only shared state is the global CONTEXT slot behind a RwLock.           *)
(*                                                                         *)
(* The wasm container and its DWARF data are parsed by the object, gimli   *)
(* and addr2line crates; a module image is therefore modelled by the       *)
(* answers those crates give for it (does it parse, where is <code>, what  *)
(* state is each debug section in, what does a lookup of an address        *)
(* yield), and lib.rs is modelled step by step on top of those answers.    *)
(***************************************************************************)
EXTENDS Integers, Sequences, FiniteSets, TLC

(***************************************************************************)
(* Bounds of the model.                                                    *)
(***************************************************************************)
\* Width of usize and of the i32 returned by init, scaled down from 32 bits
\* (TLC's integers are 32 bits wide themselves).  Casts keep the code's
\* two's-complement behaviour at this width.
UsizeBits == 4
\* Addresses the host asks about are 0..MaxAddr.
MaxAddr == 4
\* Number of init calls in one run (each one leaks one ReadCache).
MaxInits == 2
\* Number of host threads in the concurrent specification.
NThreads == 2
\* Module lengths given to ModuleReader::new are 0..MaxLen.
MaxLen == 3
\* Relative seek offsets are -MaxSeek..MaxSeek.
MaxSeek == 2
\* Buffers given to read hold 0..MaxBuf bytes.
MaxBuf == 2

Pow2(n) == 2 ^ n
UsizeMod == Pow2(UsizeBits)
MaxUsize == UsizeMod - 1
MaxI32 == Pow2(UsizeBits - 1) - 1

\* Option<T> as a sequence of length 0 or 1.
None == <<>>
Some(x) == <<x>>
IsSome(o) == Len(o) = 1
Unwrap(o) == o[1]
\* unwrap_or(&[]) and unwrap_or(0)
OrEmpty(o) == IF IsSome(o) THEN Unwrap(o) ELSE ""
OrZero(o) == IF IsSome(o) THEN Unwrap(o) ELSE 0

(***************************************************************************)
(* Module images.  A container is described by what the object crate       *)
(* reports for it.                                                         *)
(***************************************************************************)
\* The debug sections gimli::Dwarf::load asks for, in the order it asks.
DebugSections == <<".debug_info", ".debug_line">>
SecInfo == 1
SecLine == 2
\* absent: section_by_name gives None; plain: uncompressed_data gives
\* Cow::Borrowed; compressed: it gives Cow::Owned; unreadable: it gives Err.
SectionStates == {"absent", "plain", "compressed", "unreadable"}
\* The content of .debug_info: one of two well-formed unit tables, or bytes
\* that Context::from_dwarf rejects.
UnitTables == {"T1", "T2"}
UnitContents == UnitTables \cup {"malformed"}
\* File offsets of the <code> section: both sides of the i32 sign boundary.
CodeOffsets == {0, 1, MaxI32, MaxI32 + 1, MaxUsize - 1, MaxUsize}

\* An image WasmFile::parse rejects has no section table at all.
Garbage ==
    [parses |-> FALSE, code |-> None,
     sections |-> [i \in 1..Len(DebugSections) |-> "absent"], units |-> "T1"]

Containers ==
    {Garbage} \cup
    {c \in [parses : {TRUE},
            code : {None} \cup {Some(o) : o \in CodeOffsets},
            sections : [1..Len(DebugSections) -> SectionStates],
            units : UnitContents] :
        \* the content of .debug_info only exists when the section does
        c.sections[SecInfo] # "plain" => c.units = "T1"}

(***************************************************************************)
(* Debug info: what addr2line answers for an address.                      *)
(***************************************************************************)
Func(name, demangled) == Some([name |-> name, demangled |-> demangled])
Loc(file, line, column) == Some([file |-> file, line |-> line, column |-> column])
Frame(function, location) == [function |-> function, location |-> location]
\* One step of the frame iterator: Ok(Some(frame)) or Err.
Item(frame) == [err |-> FALSE, frame |-> frame]
IterErr == [err |-> TRUE, frame |-> Frame(None, None)]

Output(items) == [kind |-> "Output", items |-> items]
OutputErr == [kind |-> "OutputErr", items |-> <<>>]
Load == [kind |-> "Load", items |-> <<>>]

\* The unit tables.  Frames are ordered innermost first.
UnitLookup(units, address) ==
    IF units = "T1" THEN
        CASE address = 0 ->
               Output(<<Item(Frame(Func("_ZN3fib3fib17h0123456789abcdefE", Some("fib::fib")),
                                   Loc(Some("src/lib.rs"), Some(8), Some(9)))),
                        Item(Frame(Func("run_fib", None),
                                   Loc(Some("src/lib.rs"), Some(3), Some(5))))>>)
          [] address = 1 ->
               Output(<<Item(Frame(None, Loc(None, None, None)))>>)
          [] address = 2 -> Load
          [] address = 3 -> OutputErr
          [] OTHER -> Output(<<>>)
    ELSE IF units = "T2" THEN
        CASE address = 0 ->
               Output(<<Item(Frame(Func("detour", None),
                                   Loc(Some("src/main.rs"), Some(20), None)))>>)
          [] address = 1 ->
               Output(<<Item(Frame(Func("_ZN6detour", Some("detour")), None)),
                        Item(Frame(Func("_ZN3fib", Some("fib")),
                                   Loc(Some("src/main.rs"), Some(11), Some(9))))>>)
          [] address = 2 -> Output(<<IterErr>>)
          [] OTHER -> Output(<<>>)
    ELSE Output(<<>>)

\* Without a line program no frame has a location, and an address that only
\* a line row covered is not covered at all.
RECURSIVE StripLocations(_)
StripLocations(items) ==
    IF items = <<>> THEN <<>>
    ELSE LET i == Head(items)
             rest == StripLocations(Tail(items))
         IN IF i.err THEN <<i>> \o rest
            ELSE IF IsSome(i.frame.function)
                 THEN <<Item(Frame(i.frame.function, None))>> \o rest
                 ELSE rest

\* ctx.find_frames(address) on a context built from the loaded sections.
find_frames(dwarf, address) ==
    LET r == UnitLookup(dwarf.units, address)
    IN IF dwarf.lines \/ r.kind # "Output" THEN r
       ELSE Output(StripLocations(r.items))

(***************************************************************************)
(* lib.rs: errors and callbacks.                                           *)
(***************************************************************************)
\* Messages lib.rs writes itself.
MsgCodeSection == "Code section not found"
MsgCompressed == "Compressed section not supported yet"
MsgContext == "Context not found"
MsgSplitDwarf == "Split DWARF not supported yet"
MsgNoFrame == "No frame found"
\* Messages that are the to_string() of a library error.
MsgWasmParse == "object: WasmFile::parse failed"
MsgSectionData == "object: uncompressed_data failed"
MsgLookup == "gimli: find_frames failed"
MsgIter == "gimli: frame iterator failed"

\* One call of a host callback.
OnFrame(symbol, location, line, column) ==
    [cb |-> "on_frame", symbol |-> symbol, location |-> location,
     line |-> line, column |-> column, message |-> ""]
OnError(message) ==
    [cb |-> "on_error", symbol |-> "", location |-> "",
     line |-> 0, column |-> 0, message |-> message]

\* Error::report
report(message) == <<OnError(message)>>

\* `x as i32` for a usize x.
AsI32(x) ==
    LET w == x % UsizeMod
    IN IF w > MaxI32 THEN w - UsizeMod ELSE w

\* The value init returns when init_impl fails.
FailureSentinel == 0 - 2

(***************************************************************************)
(* init_impl up to the construction of the context (everything before      *)
(* set_context): a function of the module image alone.                     *)
(***************************************************************************)
Ok(offset, dwarf) ==
    [kind |-> "Ok", message |-> "", offset |-> offset, dwarf |-> dwarf]
Err(message) ==
    [kind |-> "Err", message |-> message, offset |-> 0,
     dwarf |-> [units |-> "none", lines |-> FALSE]]
Panic ==
    [kind |-> "Panic", message |-> "", offset |-> 0,
     dwarf |-> [units |-> "none", lines |-> FALSE]]

\* load_section failing on a section the container does not have.
load_section_absent_fails(state) ==
    CASE state = "absent" -> MsgSectionData
      [] state = "unreadable" -> MsgSectionData
      [] state = "compressed" -> MsgCompressed
      [] OTHER -> ""

\* load_section with a compressed section silently skipped.
load_section_skip_compressed(state) ==
    CASE state = "unreadable" -> MsgSectionData
      [] OTHER -> ""

\* The closure given to gimli::Dwarf::load, for one section: "" when it
\* yields data (possibly empty), else the error message.
load_section(state) ==
    CASE state = "absent" -> ""
      [] state = "unreadable" -> MsgSectionData
      [] state = "compressed" -> MsgCompressed
      [] OTHER -> ""

\* gimli::Dwarf::load: the sections in order, stopping at the first error.
RECURSIVE DwarfLoad(_, _)
DwarfLoad(sections, i) ==
    IF i > Len(DebugSections) THEN ""
    ELSE LET e == load_section(sections[i])
         IN IF e # "" THEN e ELSE DwarfLoad(sections, i + 1)

\* The sections as loaded: absent sections are empty.
Loaded(c) ==
    [units |-> IF c.sections[SecInfo] = "plain" THEN c.units ELSE "none",
     lines |-> c.sections[SecLine] = "plain"]

\* Context::from_dwarf(dwarf): TRUE when it returns Ok.
from_dwarf(dwarf) == dwarf.units # "malformed"

\* init_impl with a missing <code> section read as offset 0.
init_impl_code_default(c) ==
    IF ~c.parses THEN Err(MsgWasmParse)
    ELSE IF DwarfLoad(c.sections, 1) # "" THEN Err(DwarfLoad(c.sections, 1))
    ELSE IF ~from_dwarf(Loaded(c)) THEN Panic
    ELSE Ok(OrZero(c.code), Loaded(c))

init_impl(c) ==
    IF ~c.parses THEN Err(MsgWasmParse)
    ELSE IF ~IsSome(c.code) THEN Err(MsgCodeSection)
    ELSE IF DwarfLoad(c.sections, 1) # "" THEN Err(DwarfLoad(c.sections, 1))
    ELSE IF ~from_dwarf(Loaded(c)) THEN Panic
    ELSE Ok(Unwrap(c.code), Loaded(c))

(***************************************************************************)
(* address_to_line_impl after get_context: a function of the context the   *)
(* call holds and of the address.                                          *)
(***************************************************************************)
\* symbol_of giving no symbol when demangling fails.
symbol_of_no_fallback(function) ==
    IF ~IsSome(function) THEN None ELSE Unwrap(function).demangled

\* f.demangle().unwrap_or_else(|_| f.name.to_string_lossy())
symbol_of(function) ==
    IF ~IsSome(function) THEN None
    ELSE LET f == Unwrap(function)
         IN IF IsSome(f.demangled) THEN f.demangled ELSE Some(f.name)

\* emit_frame with line and column passed in the wrong order.
emit_frame_swapped(frame) ==
    LET location == IF IsSome(frame.location) THEN Unwrap(frame.location).file ELSE None
        line == IF IsSome(frame.location) THEN Unwrap(frame.location).line ELSE None
        column == IF IsSome(frame.location) THEN Unwrap(frame.location).column ELSE None
    IN OnFrame(OrEmpty(symbol_of(frame.function)), OrEmpty(location),
               OrZero(column), OrZero(line))

\* The on_frame call made for one frame.
emit_frame(frame) ==
    LET location == IF IsSome(frame.location) THEN Unwrap(frame.location).file ELSE None
        line == IF IsSome(frame.location) THEN Unwrap(frame.location).line ELSE None
        column == IF IsSome(frame.location) THEN Unwrap(frame.location).column ELSE None
    IN OnFrame(OrEmpty(symbol_of(frame.function)), OrEmpty(location),
               OrZero(line), OrZero(column))

\* The result of address_to_line_impl: the callbacks it made itself, and
\* the error it returned ("" for Ok(())).
Done(callbacks, error) == [callbacks |-> callbacks, error |-> error]

\* address_to_line_impl emitting the last (outermost) frame.
address_to_line_impl_outermost(ctx, address) ==
    IF ~IsSome(ctx) THEN Done(<<>>, MsgContext)
    ELSE LET r == find_frames(Unwrap(ctx).dwarf, address)
         IN CASE r.kind = "Load" -> Done(<<>>, MsgSplitDwarf)
              [] r.kind = "OutputErr" -> Done(<<>>, MsgLookup)
              [] OTHER ->
                   IF r.items = <<>> THEN Done(<<>>, MsgNoFrame)
                   ELSE IF Head(r.items).err THEN Done(<<>>, MsgIter)
                   ELSE Done(<<emit_frame(r.items[Len(r.items)].frame)>>, "")

\* address_to_line_impl treating a lookup that needs split DWARF as one
\* that found nothing.
address_to_line_impl_load_ignored(ctx, address) ==
    IF ~IsSome(ctx) THEN Done(<<>>, MsgContext)
    ELSE LET r == find_frames(Unwrap(ctx).dwarf, address)
         IN CASE r.kind = "Load" -> Done(<<>>, MsgNoFrame)
              [] r.kind = "OutputErr" -> Done(<<>>, MsgLookup)
              [] OTHER ->
                   IF r.items = <<>> THEN Done(<<>>, MsgNoFrame)
                   ELSE IF Head(r.items).err THEN Done(<<>>, MsgIter)
                   ELSE Done(<<emit_frame(Head(r.items).frame)>>, "")

\* address_to_line_impl answering from an empty context when there is none.
address_to_line_impl_default_ctx(ctx, address) ==
    LET r == IF IsSome(ctx) THEN find_frames(Unwrap(ctx).dwarf, address) ELSE Output(<<>>)
    IN CASE r.kind = "Load" -> Done(<<>>, MsgSplitDwarf)
         [] r.kind = "OutputErr" -> Done(<<>>, MsgLookup)
         [] OTHER ->
              IF r.items = <<>> THEN Done(<<>>, MsgNoFrame)
              ELSE IF Head(r.items).err THEN Done(<<>>, MsgIter)
              ELSE Done(<<emit_frame(Head(r.items).frame)>>, "")

\* address_to_line_impl emitting a default frame when the iterator is empty.
address_to_line_impl_zero_frame(ctx, address) ==
    IF ~IsSome(ctx) THEN Done(<<>>, MsgContext)
    ELSE LET r == find_frames(Unwrap(ctx).dwarf, address)
         IN CASE r.kind = "Load" -> Done(<<>>, MsgSplitDwarf)
              [] r.kind = "OutputErr" -> Done(<<>>, MsgLookup)
              [] OTHER ->
                   IF r.items = <<>> THEN Done(<<emit_frame(Frame(None, None))>>, "")
                   ELSE IF Head(r.items).err THEN Done(<<>>, MsgIter)
                   ELSE Done(<<emit_frame(Head(r.items).frame)>>, "")

address_to_line_impl(ctx, address) ==
    IF ~IsSome(ctx) THEN Done(<<>>, MsgContext)
    ELSE LET r == find_frames(Unwrap(ctx).dwarf, address)
         IN CASE r.kind = "Load" -> Done(<<>>, MsgSplitDwarf)
              [] r.kind = "OutputErr" -> Done(<<>>, MsgLookup)
              [] OTHER ->
                   IF r.items = <<>> THEN Done(<<>>, MsgNoFrame)
                   ELSE IF Head(r.items).err THEN Done(<<>>, MsgIter)
                   ELSE Done(<<emit_frame(Head(r.items).frame)>>, "")

\* address_to_frame dropping the error instead of reporting it.
address_to_frame_silent(ctx, address) ==
    address_to_line_impl(ctx, address).callbacks

\* address_to_frame: the callbacks of one whole call.
address_to_frame(ctx, address) ==
    LET r == address_to_line_impl(ctx, address)
    IN IF r.error = "" THEN r.callbacks ELSE r.callbacks \o report(r.error)

(***************************************************************************)
(* The program state.                                                      *)
(***************************************************************************)
VARIABLES
    CONTEXT,    \* the global slot: Option<Arc<Context>>
    rwlock,     \* the RwLock around it: the threads holding it
    strong,     \* strong count of each Arc<Context>, by id
    freed,      \* ids of the contexts whose strong count reached 0
    leaked,     \* number of ReadCache boxes given to Box::leak
    installs,   \* number of set_context calls completed
    pc,         \* where each host thread is
    call,       \* the call each thread is in, or made last
    events,     \* the callbacks made during that call, in order
    reader,     \* a ModuleReader: its len and pos
    overflow_checks,    \* whether the build checks integer overflow
    io          \* the last read or seek made on the reader

coreVars == <<CONTEXT, rwlock, strong, freed, leaked, installs, pc, call, events>>
readerVars == <<reader, overflow_checks, io>>
vars == <<CONTEXT, rwlock, strong, freed, leaked, installs, pc, call, events,
          reader, overflow_checks, io>>

Threads == 1..NThreads
Addresses == 0..MaxAddr

\* A call record: the entry point, its input (the image served for init,
\* the address for address_to_frame), the Arc<Context> the call holds or
\* built, how it ended, the value init returned, and the value of
\* `installs` when the call began.
NoCall ==
    [op |-> "none", image |-> Garbage, address |-> 0, ctx |-> None,
     status |-> "returned", ret |-> 0, epoch |-> 0]

\* ModuleReader::new
new(len) == [len |-> len, pos |-> 0]

\* A record of one read or seek: the operation and its argument, the cursor
\* before it, the offset and length handed to read_chunk, the value
\* returned, how the call ended, and the k of a seek(End(k)) that
\* immediately preceded it.
NoIo ==
    [op |-> "none", whence |-> "Start", k |-> 0, before |-> 0, src |-> 0,
     n |-> 0, ret |-> 0, status |-> "returned", prevEnd |-> None]

Init ==
    /\ reader = new(0)
    /\ overflow_checks = FALSE
    /\ io = NoIo
    /\ CONTEXT = None
    /\ rwlock = [readers |-> {}, writer |-> None]
    /\ strong = [i \in 1..MaxInits |-> 0]
    /\ freed = {}
    /\ leaked = 0
    /\ installs = 0
    /\ pc = [t \in Threads |-> "idle"]
    /\ call = [t \in Threads |-> NoCall]
    /\ events = [t \in Threads |-> <<>>]

\* Arc::clone of an Option<Arc<Context>>.
ArcClone(o) ==
    /\ strong' = IF IsSome(o) THEN [strong EXCEPT ![Unwrap(o).id] = @ + 1] ELSE strong
    /\ UNCHANGED freed

\* Drop of an Option<Arc<Context>>: the Context goes when the count does.
ArcDrop(o) ==
    /\ strong' = IF IsSome(o) THEN [strong EXCEPT ![Unwrap(o).id] = @ - 1] ELSE strong
    /\ freed' = IF IsSome(o) /\ strong[Unwrap(o).id] = 1
                THEN freed \cup {Unwrap(o).id} ELSE freed

\* init taking the write lock before it parses, and keeping it until the
\* context is stored.
init_locking(t, c) ==
    /\ pc[t] = "idle"
    /\ leaked < MaxInits
    /\ rwlock.readers = {} /\ rwlock.writer = None
    /\ leaked' = leaked + 1
    /\ LET r == init_impl(c)
           this == [op |-> "init", image |-> c, address |-> 0, ctx |-> None,
                    status |-> "running", ret |-> 0, epoch |-> installs]
       IN CASE r.kind = "Err" ->
                 /\ events' = [events EXCEPT ![t] = report(r.message)]
                 /\ call' = [call EXCEPT ![t] =
                        [this EXCEPT !.status = "returned", !.ret = FailureSentinel]]
                 /\ UNCHANGED <<pc, strong, rwlock>>
            [] r.kind = "Panic" ->
                 /\ events' = [events EXCEPT ![t] = <<>>]
                 /\ call' = [call EXCEPT ![t] = [this EXCEPT !.status = "trapped"]]
                 /\ UNCHANGED <<pc, strong, rwlock>>
            [] OTHER ->
                 /\ events' = [events EXCEPT ![t] = <<>>]
                 /\ call' = [call EXCEPT ![t] =
                        [this EXCEPT !.ctx = Some([id |-> leaked + 1, dwarf |-> r.dwarf])]]
                 /\ strong' = [strong EXCEPT ![leaked + 1] = 1]
                 /\ rwlock' = [rwlock EXCEPT !.writer = Some(t)]
                 /\ pc' = [pc EXCEPT ![t] = "assign"]
    /\ UNCHANGED <<CONTEXT, freed, installs>>
    /\ UNCHANGED readerVars

\* init taking the old context out of the slot when init_impl fails.
init_clearing(t, c) ==
    /\ pc[t] = "idle"
    /\ leaked < MaxInits
    /\ leaked' = leaked + 1
    /\ LET r == init_impl(c)
           this == [op |-> "init", image |-> c, address |-> 0, ctx |-> None,
                    status |-> "running", ret |-> 0, epoch |-> installs]
       IN CASE r.kind = "Err" ->
                 /\ events' = [events EXCEPT ![t] = report(r.message)]
                 /\ call' = [call EXCEPT ![t] =
                        [this EXCEPT !.status = "returned", !.ret = FailureSentinel]]
                 /\ CONTEXT' = None
                 /\ UNCHANGED <<pc, strong>>
            [] r.kind = "Panic" ->
                 /\ events' = [events EXCEPT ![t] = <<>>]
                 /\ call' = [call EXCEPT ![t] = [this EXCEPT !.status = "trapped"]]
                 /\ UNCHANGED <<pc, strong, CONTEXT>>
            [] OTHER ->
                 /\ events' = [events EXCEPT ![t] = <<>>]
                 /\ call' = [call EXCEPT ![t] =
                        [this EXCEPT !.ctx = Some([id |-> leaked + 1, dwarf |-> r.dwarf])]]
                 /\ strong' = [strong EXCEPT ![leaked + 1] = 1]
                 /\ pc' = [pc EXCEPT ![t] = "set_context"]
                 /\ UNCHANGED CONTEXT
    /\ UNCHANGED <<rwlock, freed, installs>>
    /\ UNCHANGED readerVars

\* init(len), lines 89-96 and 99-136: the host serves image c through
\* read_chunk.  Everything up to the construction of the context touches
\* no shared state, so it is one step.
init(t, c) ==
    /\ pc[t] = "idle"
    /\ leaked < MaxInits
    /\ leaked' = leaked + 1
    /\ LET r == init_impl(c)
           this == [op |-> "init", image |-> c, address |-> 0, ctx |-> None,
                    status |-> "running", ret |-> 0, epoch |-> installs]
       IN CASE r.kind = "Err" ->
                 /\ events' = [events EXCEPT ![t] = report(r.message)]
                 /\ call' = [call EXCEPT ![t] =
                        [this EXCEPT !.status = "returned", !.ret = FailureSentinel]]
                 /\ UNCHANGED <<pc, strong>>
            [] r.kind = "Panic" ->
                 /\ events' = [events EXCEPT ![t] = <<>>]
                 /\ call' = [call EXCEPT ![t] = [this EXCEPT !.status = "trapped"]]
                 /\ UNCHANGED <<pc, strong>>
            [] OTHER ->
                 /\ events' = [events EXCEPT ![t] = <<>>]
                 /\ call' = [call EXCEPT ![t] =
                        [this EXCEPT !.ctx = Some([id |-> leaked + 1, dwarf |-> r.dwarf])]]
                 /\ strong' = [strong EXCEPT ![leaked + 1] = 1]
                 /\ pc' = [pc EXCEPT ![t] = "set_context"]
    /\ UNCHANGED <<CONTEXT, rwlock, freed, installs>>
    /\ UNCHANGED readerVars

\* set_context, line 77: CONTEXT.write()
set_context_lock(t) ==
    /\ pc[t] = "set_context"
    /\ rwlock.readers = {} /\ rwlock.writer = None
    /\ rwlock' = [rwlock EXCEPT !.writer = Some(t)]
    /\ pc' = [pc EXCEPT ![t] = "assign"]
    /\ UNCHANGED <<CONTEXT, strong, freed, leaked, installs, call, events>>
    /\ UNCHANGED readerVars

\* set_context, line 78, first half: the assignment drops the value the
\* slot holds; until the new value is written the slot still points at it.
set_context_drop(t) ==
    /\ pc[t] = "assign"
    /\ ArcDrop(CONTEXT)
    /\ pc' = [pc EXCEPT ![t] = "store"]
    /\ UNCHANGED <<CONTEXT, rwlock, leaked, installs, call, events>>
    /\ UNCHANGED readerVars

\* set_context_store keeping a context that is already installed.
set_context_store_keep_first(t) ==
    /\ pc[t] = "store"
    /\ CONTEXT' = IF IsSome(CONTEXT) THEN CONTEXT ELSE call[t].ctx
    /\ installs' = installs + 1
    /\ rwlock' = [rwlock EXCEPT !.writer = None]
    /\ call' = [call EXCEPT ![t] =
           [@ EXCEPT !.status = "returned",
                     !.ret = AsI32(init_impl(call[t].image).offset)]]
    /\ pc' = [pc EXCEPT ![t] = "idle"]
    /\ UNCHANGED <<strong, freed, leaked, events>>
    /\ UNCHANGED readerVars

\* set_context, line 78, second half, and line 79; then lines 139 and 91:
\* the new value is written, the guard released, init returns the offset.
set_context_store(t) ==
    /\ pc[t] = "store"
    /\ CONTEXT' = call[t].ctx
    /\ installs' = installs + 1
    /\ rwlock' = [rwlock EXCEPT !.writer = None]
    /\ call' = [call EXCEPT ![t] =
           [@ EXCEPT !.status = "returned",
                     !.ret = AsI32(init_impl(call[t].image).offset)]]
    /\ pc' = [pc EXCEPT ![t] = "idle"]
    /\ UNCHANGED <<strong, freed, leaked, events>>
    /\ UNCHANGED readerVars

\* get_context_lock not waiting for the writer.
get_context_lock_unguarded(t, address) ==
    /\ pc[t] = "idle"
    /\ rwlock' = [rwlock EXCEPT !.readers = @ \cup {t}]
    /\ call' = [call EXCEPT ![t] =
           [op |-> "address_to_frame", image |-> Garbage, address |-> address,
            ctx |-> None, status |-> "running", ret |-> 0, epoch |-> installs]]
    /\ events' = [events EXCEPT ![t] = <<>>]
    /\ pc' = [pc EXCEPT ![t] = "get_context"]
    /\ UNCHANGED <<CONTEXT, strong, freed, leaked, installs>>
    /\ UNCHANGED readerVars

\* address_to_frame(address) up to get_context, line 70: CONTEXT.read()
get_context_lock(t, address) ==
    /\ pc[t] = "idle"
    /\ rwlock.writer = None
    /\ rwlock' = [rwlock EXCEPT !.readers = @ \cup {t}]
    /\ call' = [call EXCEPT ![t] =
           [op |-> "address_to_frame", image |-> Garbage, address |-> address,
            ctx |-> None, status |-> "running", ret |-> 0, epoch |-> installs]]
    /\ events' = [events EXCEPT ![t] = <<>>]
    /\ pc' = [pc EXCEPT ![t] = "get_context"]
    /\ UNCHANGED <<CONTEXT, strong, freed, leaked, installs>>
    /\ UNCHANGED readerVars

\* get_context handing out the slot's value without cloning the Arc.
get_context_clone_borrow(t) ==
    /\ pc[t] = "get_context"
    /\ call' = [call EXCEPT ![t] = [@ EXCEPT !.ctx = CONTEXT]]
    /\ rwlock' = [rwlock EXCEPT !.readers = @ \ {t}]
    /\ pc' = [pc EXCEPT ![t] = "find_frames"]
    /\ UNCHANGED <<CONTEXT, strong, freed, leaked, installs, events>>
    /\ UNCHANGED readerVars

\* get_context, lines 71-72: clone the Arc, release the guard.
get_context_clone(t) ==
    /\ pc[t] = "get_context"
    /\ call' = [call EXCEPT ![t] = [@ EXCEPT !.ctx = CONTEXT]]
    /\ ArcClone(CONTEXT)
    /\ rwlock' = [rwlock EXCEPT !.readers = @ \ {t}]
    /\ pc' = [pc EXCEPT ![t] = "find_frames"]
    /\ UNCHANGED <<CONTEXT, leaked, installs, events>>
    /\ UNCHANGED readerVars

\* The rest of address_to_frame, lines 171-207 and 144-149: the lookup in
\* the context the call holds, the callback, and the drop of that context.
address_to_line(t) ==
    /\ pc[t] = "find_frames"
    /\ events' = [events EXCEPT ![t] = address_to_frame(call[t].ctx, call[t].address)]
    /\ ArcDrop(call[t].ctx)
    /\ call' = [call EXCEPT ![t] = [@ EXCEPT !.status = "returned"]]
    /\ pc' = [pc EXCEPT ![t] = "idle"]
    /\ UNCHANGED <<CONTEXT, rwlock, leaked, installs>>
    /\ UNCHANGED readerVars

\* The host as the wasm32 build has it: one thread, each entry point running
\* to completion before the next call, any module image.
MainThread == 1
Next ==
    \/ \E c \in Containers : init(MainThread, c)
    \/ set_context_lock(MainThread)
    \/ set_context_drop(MainThread)
    \/ set_context_store(MainThread)
    \/ \E a \in Addresses : get_context_lock(MainThread, a)
    \/ get_context_clone(MainThread)
    \/ address_to_line(MainThread)

Spec == Init /\ [][Next]_vars

\* A host with several threads calling the entry points concurrently, which
\* is what the RwLock is there for.  The images are those with <code> at
\* offset 1 and a line program: the two unit tables, a malformed
\* .debug_info and a compressed one.
ThreadImages ==
    {c \in Containers :
        /\ c.code = Some(1)
        /\ c.sections[SecLine] = "plain"
        /\ c.sections[SecInfo] \in {"plain", "compressed"}}
\* The addresses they ask about: one with frames in both tables (different
\* ones), and one no unit covers.
ThreadAddresses == {0, MaxAddr}

NextThreads ==
    \E t \in Threads :
        \/ \E c \in ThreadImages : init(t, c)
        \/ set_context_lock(t)
        \/ set_context_drop(t)
        \/ set_context_store(t)
        \/ \E a \in ThreadAddresses : get_context_lock(t, a)
        \/ get_context_clone(t)
        \/ address_to_line(t)

SpecThreads == Init /\ [][NextThreads]_vars

(***************************************************************************)
(* ModuleReader, lines 35-62: the Read and Seek the object crate's         *)
(* ReadCache drives during init_impl.                                      *)
(***************************************************************************)
\* `x as usize` for an i64 or u64 x.
AsUsize(x) == x % UsizeMod

\* The seeks made: SeekFrom::Start(k) for a k that fits a usize, and
\* SeekFrom::End(k) and SeekFrom::Current(k) for small k of either sign.
Seeks ==
    [whence : {"Start"}, k : 0..MaxUsize]
        \cup [whence : {"End", "Current"}, k : (0 - MaxSeek)..MaxSeek]

\* a + b on usize: a panic when the build checks overflow and the sum does
\* not fit, else the sum wrapped.
Overflows(a, b) == overflow_checks /\ a + b > MaxUsize
Wrapped(a, b) == (a + b) % UsizeMod

\* The k of the seek(End(k)) that was the last operation, if it was one.
JustSeekedEnd ==
    IF io.op = "seek" /\ io.whence = "End" /\ io.status = "returned"
    THEN Some(io.k) ELSE None

\* Read::read, lines 46-51, on a buffer of n bytes of which the host's
\* read_chunk fills ret.
read(n, ret) ==
    /\ reader' = IF Overflows(reader.pos, ret) THEN reader
                 ELSE [reader EXCEPT !.pos = Wrapped(reader.pos, ret)]
    /\ io' = [op |-> "read", whence |-> "Start", k |-> 0, before |-> reader.pos,
              src |-> reader.pos, n |-> n, ret |-> ret,
              status |-> IF Overflows(reader.pos, ret) THEN "trapped" ELSE "returned",
              prevEnd |-> JustSeekedEnd]
    /\ UNCHANGED <<coreVars, overflow_checks>>

\* Seek::seek, lines 54-61.
seek(whence, k) ==
    LET base == CASE whence = "Start" -> 0
                  [] whence = "End" -> reader.len
                  [] OTHER -> reader.pos
        trap == whence # "Start" /\ Overflows(base, AsUsize(k))
        pos == Wrapped(base, AsUsize(k))
    IN /\ reader' = IF trap THEN reader ELSE [reader EXCEPT !.pos = pos]
       /\ io' = [op |-> "seek", whence |-> whence, k |-> k, before |-> reader.pos,
                 src |-> 0, n |-> 0, ret |-> IF trap THEN 0 ELSE pos,
                 status |-> IF trap THEN "trapped" ELSE "returned",
                 prevEnd |-> None]
       /\ UNCHANGED <<coreVars, overflow_checks>>

\* A reader over a module of any length, in a build with or without
\* overflow checks; the context is left alone.
InitReader ==
    /\ reader \in {new(len) : len \in 0..MaxLen}
    /\ overflow_checks \in BOOLEAN
    /\ io = NoIo
    /\ CONTEXT = None
    /\ rwlock = [readers |-> {}, writer |-> None]
    /\ strong = [i \in 1..MaxInits |-> 0]
    /\ freed = {}
    /\ leaked = 0
    /\ installs = 0
    /\ pc = [t \in Threads |-> "idle"]
    /\ call = [t \in Threads |-> NoCall]
    /\ events = [t \in Threads |-> <<>>]

NextReader ==
    \/ \E n \in 0..MaxBuf : \E ret \in 0..n : read(n, ret)
    \/ \E s \in Seeks : seek(s.whence, s.k)

SpecReader == InitReader /\ [][NextReader]_vars

(***************************************************************************)
(* Properties.                                                             *)
(***************************************************************************)
\* The class of an error message in the taxonomy of the design (section 7):
\* messages that are a library's to_string() are parse errors.
ErrorClass(message) ==
    CASE message \in {MsgCodeSection, MsgContext, MsgNoFrame} -> "NotFound"
      [] message \in {MsgCompressed, MsgSplitDwarf} -> "Unsupported"
      [] OTHER -> "ParseError"

\* Thread t has finished (returned from, or trapped in) a call of op.
Ended(t, op) == call[t].op = op /\ call[t].status # "running"
Returned(t, op) == call[t].op = op /\ call[t].status = "returned"

OneError(t) == Len(events[t]) = 1 /\ events[t][1].cb = "on_error"
OneFrame(t) == Len(events[t]) = 1 /\ events[t][1].cb = "on_frame"

\* C1: every address_to_frame call makes exactly one host callback before
\* it returns, on_frame or on_error, whatever the context and the address;
\* it makes none before the lookup and it always returns.
C1_ExactlyOneCallback ==
    \A t \in Threads :
        call[t].op = "address_to_frame" =>
            IF call[t].status = "running"
            THEN events[t] = <<>>
            ELSE /\ call[t].status = "returned"
                 /\ OneFrame(t) \/ OneError(t)

C1_Witness ==
    \E t \in Threads :
        /\ Returned(t, "address_to_frame")
        /\ IsSome(call[t].ctx)
        /\ OneFrame(t)

\* The image makes init_impl fail before the context is constructed: it
\* does not parse, has no <code> section, or has a debug section that is
\* compressed or fails to load.
FailsBeforeContext(c) ==
    \/ ~c.parses
    \/ ~IsSome(c.code)
    \/ \E i \in 1..Len(DebugSections) : c.sections[i] \in {"compressed", "unreadable"}

\* C2: an init call that fails because the container does not parse, the
\* <code> section is missing, or a debug section is compressed or fails to
\* load calls on_error exactly once, never on_frame, and returns the
\* negative sentinel.
C2_InitFailureReportedOnce ==
    \A t \in Threads :
        (call[t].op = "init" /\ FailsBeforeContext(call[t].image)) =>
            /\ call[t].status = "returned"
            /\ OneError(t)
            /\ call[t].ret = FailureSentinel
            /\ call[t].ret < 0

C2_Witness ==
    \E t \in Threads :
        /\ Returned(t, "init")
        /\ call[t].image.parses
        /\ IsSome(call[t].image.code)
        /\ call[t].image.sections[SecInfo] = "plain"
        /\ call[t].image.sections[SecLine] = "compressed"
        /\ OneError(t)

\* The image gets init_impl as far as Context::from_dwarf, which rejects it.
ContextConstructionFails(c) ==
    /\ ~FailsBeforeContext(c)
    /\ c.sections[SecInfo] = "plain"
    /\ c.units = "malformed"

\* C3: when the construction of the context from the loaded sections fails,
\* init reports it: on_error is called exactly once, init returns the
\* negative sentinel, and the global context is not replaced.
C3_ContextFailureReported ==
    \A t \in Threads :
        (call[t].op = "init" /\ ContextConstructionFails(call[t].image)) =>
            /\ call[t].status = "returned"
            /\ OneError(t)
            /\ call[t].ret = FailureSentinel

\* C4: a successful init returns the file offset of the <code> section as
\* a value >= 0 and makes no on_error call; the value init returns is
\* negative exactly when the initialization failed; for every offset a
\* usize holds.
C4_ReturnValueSign ==
    \A t \in Threads :
        Returned(t, "init") =>
            IF init_impl(call[t].image).kind = "Ok"
            THEN /\ events[t] = <<>>
                 /\ call[t].ret = Unwrap(call[t].image.code)
                 /\ call[t].ret >= 0
            ELSE call[t].ret < 0

\* C5: as long as no init has succeeded, whatever calls came before, every
\* address_to_frame fails with "Context not found" (NotFound) and emits no
\* frame.
C5_NoContextBeforeInit ==
    \A t \in Threads :
        (Returned(t, "address_to_frame") /\ installs = 0) =>
            /\ events[t] = report(MsgContext)
            /\ ErrorClass(events[t][1].message) = "NotFound"

C5_Witness ==
    \E t \in Threads :
        /\ Returned(t, "address_to_frame")
        /\ installs = 0
        /\ leaked > 0
        /\ OneError(t)

\* What the debug info maps an address to: the file, line and column of
\* the line-program row, when the unit table has one with all three.
Maps(units, lines, address) ==
    LET r == UnitLookup(units, address)
    IN IF /\ lines
          /\ r.kind = "Output"
          /\ r.items # <<>>
          /\ ~Head(r.items).err
          /\ IsSome(Head(r.items).frame.location)
          /\ IsSome(Unwrap(Head(r.items).frame.location).file)
          /\ IsSome(Unwrap(Head(r.items).frame.location).line)
          /\ IsSome(Unwrap(Head(r.items).frame.location).column)
       THEN Head(r.items).frame.location
       ELSE None
ImageMaps(c, address) ==
    IF c.sections[SecInfo] = "plain"
    THEN Maps(c.units, c.sections[SecLine] = "plain", address)
    ELSE None

\* C6: after a successful init on an image with the <code> section whose
\* debug info maps address A to (file F, line L, column C), the slot holds
\* a context with that mapping, and address_to_frame(A) on it emits one
\* frame with exactly file F, line L and column C.
C6_MappedAddressResolves ==
    \A t \in Threads :
        /\ (Returned(t, "init") /\ events[t] = <<>>) =>
               /\ CONTEXT = call[t].ctx
               /\ IsSome(CONTEXT)
               /\ \A a \in Addresses :
                      Maps(Unwrap(CONTEXT).dwarf.units, Unwrap(CONTEXT).dwarf.lines, a)
                          = ImageMaps(call[t].image, a)
        /\ Returned(t, "address_to_frame") =>
               /\ call[t].ctx = CONTEXT
               /\ IsSome(call[t].ctx) =>
                      LET d == Unwrap(call[t].ctx).dwarf
                          m == Maps(d.units, d.lines, call[t].address)
                      IN IsSome(m) =>
                             /\ OneFrame(t)
                             /\ events[t][1].location = Unwrap(Unwrap(m).file)
                             /\ events[t][1].line = Unwrap(Unwrap(m).line)
                             /\ events[t][1].column = Unwrap(Unwrap(m).column)

C6_Witness ==
    \E t \in Threads :
        /\ Returned(t, "address_to_frame")
        /\ call[t].address = 0
        /\ IsSome(call[t].ctx)
        /\ Unwrap(call[t].ctx).dwarf = [units |-> "T1", lines |-> TRUE]
        /\ events[t] = <<OnFrame("fib::fib", "src/lib.rs", 8, 9)>>

\* The step is thread t calling init.
InitCalled(t) ==
    /\ pc[t] = "idle"
    /\ leaked' = leaked + 1
    /\ call'[t].op = "init"
    /\ call'[t].epoch = installs
    /\ \A u \in Threads \ {t} : call'[u] = call[u] /\ events'[u] = events[u]

\* The call leaves the slot, and the context in it, as they were.
ContextUntouched ==
    /\ CONTEXT' = CONTEXT
    /\ strong' = strong
    /\ freed' = freed
    /\ installs' = installs

\* C7: init on a container without the <code> section fails with
\* "Code section not found" (NotFound) and leaves the global context as it
\* was: absent stays absent, and a prior context stays installed and alive.
C7_MissingCodeLeavesContext ==
    [][\A t \in Threads :
          (/\ InitCalled(t)
           /\ call'[t].image.parses
           /\ ~IsSome(call'[t].image.code)) =>
              /\ call'[t].status = "returned"
              /\ call'[t].ret = FailureSentinel
              /\ events'[t] = report(MsgCodeSection)
              /\ ErrorClass(MsgCodeSection) = "NotFound"
              /\ ContextUntouched]_vars

C7_Witness ==
    \E t \in Threads :
        /\ Returned(t, "init")
        /\ call[t].image.parses
        /\ ~IsSome(call[t].image.code)
        /\ events[t] = report(MsgCodeSection)
        /\ IsSome(CONTEXT)
        /\ strong[Unwrap(CONTEXT).id] = 1

\* The image gets init_impl as far as a compressed debug section.
ReachesCompressed(c) ==
    /\ c.parses
    /\ IsSome(c.code)
    /\ \E i \in 1..Len(DebugSections) :
           /\ c.sections[i] = "compressed"
           /\ \A j \in 1..(i - 1) : c.sections[j] # "unreadable"

\* C8: init on a container with a compressed debug section (the container
\* otherwise getting that far) fails with "Compressed section not supported
\* yet" (Unsupported), and the global context is not overwritten: a prior
\* context stays installed and alive.
C8_CompressedLeavesContext ==
    [][\A t \in Threads :
          (InitCalled(t) /\ ReachesCompressed(call'[t].image)) =>
              /\ call'[t].status = "returned"
              /\ call'[t].ret = FailureSentinel
              /\ events'[t] = report(MsgCompressed)
              /\ ErrorClass(MsgCompressed) = "Unsupported"
              /\ ContextUntouched]_vars

C8_Witness ==
    \E t \in Threads :
        /\ Returned(t, "init")
        /\ ReachesCompressed(call[t].image)
        /\ events[t] = report(MsgCompressed)
        /\ IsSome(CONTEXT)
        /\ strong[Unwrap(CONTEXT).id] = 1

\* No debug entry of the context covers the address: the lookup succeeds
\* and yields no frame.
Uncovered(dwarf, address) == find_frames(dwarf, address) = Output(<<>>)

\* C9: with a context installed, address_to_frame on an address no debug
\* entry covers fails with "No frame found" (NotFound) through on_error,
\* and makes no on_frame call, in particular none with empty symbol and
\* file and line and column 0.
C9_UncoveredAddressNotFound ==
    \A t \in Threads :
        (/\ Returned(t, "address_to_frame")
         /\ IsSome(call[t].ctx)
         /\ Uncovered(Unwrap(call[t].ctx).dwarf, call[t].address)) =>
            /\ events[t] = report(MsgNoFrame)
            /\ ErrorClass(events[t][1].message) = "NotFound"

C9_Witness ==
    \E t \in Threads :
        /\ Returned(t, "address_to_frame")
        /\ IsSome(call[t].ctx)
        /\ Unwrap(call[t].ctx).dwarf.units = "T1"
        /\ call[t].address = MaxAddr
        /\ events[t] = report(MsgNoFrame)

\* C10: address_to_frame calls running concurrently against a context that
\* no init replaces meanwhile each hold that context, whole and alive, for
\* the whole lookup, and each emits what the same call emits when it runs
\* alone against the context in the slot, under every interleaving.
C10_ConcurrentResolves ==
    /\ [](\A t \in Threads :
            (pc[t] = "find_frames" /\ IsSome(call[t].ctx)) =>
                /\ Unwrap(call[t].ctx).id \notin freed
                /\ strong[Unwrap(call[t].ctx).id] >= 1)
    /\ [][\A t \in Threads :
            (/\ pc[t] = "find_frames"
             /\ pc'[t] = "idle"
             /\ call[t].epoch = installs) =>
                /\ call[t].ctx = CONTEXT
                /\ events'[t] = address_to_frame(CONTEXT, call[t].address)]_vars

C10_Witness ==
    \E t \in Threads, u \in Threads :
        /\ t # u
        /\ pc[t] = "find_frames"
        /\ pc[u] = "find_frames"
        /\ IsSome(CONTEXT)
        /\ call[t].ctx = CONTEXT
        /\ call[u].ctx = CONTEXT
        /\ strong[Unwrap(CONTEXT).id] = 3

\* The storage that is live: the contexts whose strong count is not 0, and
\* the module-image caches, none of which is ever freed once leaked.
LiveContexts == {i \in 1..MaxInits : strong[i] > 0}
LiveImages == leaked

AllIdle == \A t \in Threads : pc[t] = "idle"

\* C11: after a successful re-initialization the previous context and the
\* storage of its module image are reclaimed once no address_to_frame still
\* references them: after any number of successful init calls, with no call
\* in flight, only the current context and its module image are live.
C11_StorageReclaimed ==
    (AllIdle /\ installs = leaked) =>
        /\ LiveContexts = {Unwrap(CONTEXT).id : i \in 1..Len(CONTEXT)}
        /\ LiveImages <= Len(CONTEXT)

\* C13: init holds the lock on the context, exclusively, only for the
\* replacement of the slot's value: the parsing and loading step takes no
\* lock and changes none, and an address_to_frame can take the read lock
\* whenever no init is inside that replacement.
C13_LockOnlyForSwap ==
    /\ [](\A t \in Threads :
            /\ rwlock.writer = Some(t) <=> pc[t] \in {"assign", "store"}
            /\ (pc[t] = "idle" /\ rwlock.writer = None) =>
                   ENABLED get_context_lock(t, 0))
    /\ [][\A t \in Threads :
            InitCalled(t) =>
                /\ rwlock' = rwlock
                /\ rwlock.writer # Some(t)
                /\ t \notin rwlock.readers]_vars

C13_Witness ==
    \E t \in Threads, u \in Threads :
        /\ call[t].op = "init"
        /\ pc[t] = "set_context"
        /\ pc[u] = "get_context"
        /\ u \in rwlock.readers
        /\ rwlock.writer = None

\* The step is thread t completing set_context.
Stored(t) == pc[t] = "store" /\ pc'[t] = "idle"

\* C14: the slot holds at most one context, and always the one built by
\* the most recent init that succeeded: only the store of a succeeding init
\* changes it, to the context that call built from its image; and an
\* address_to_frame takes the context in the slot at the time it reads it,
\* so never one older than the one installed when the call began.
C14_LatestContextInstalled ==
    /\ [](Len(CONTEXT) <= 1 /\ (IsSome(CONTEXT) <=> installs > 0))
    /\ [][\A t \in Threads :
            Stored(t) =>
                /\ CONTEXT' = call[t].ctx
                /\ IsSome(CONTEXT')
                /\ Unwrap(CONTEXT').dwarf = Loaded(call[t].image)
                /\ installs' = installs + 1
                /\ call'[t].status = "returned"]_vars
    /\ [][CONTEXT' # CONTEXT => \E t \in Threads : Stored(t)]_vars
    /\ [][\A t \in Threads :
            (pc[t] = "get_context" /\ pc'[t] = "find_frames") =>
                /\ call'[t].ctx = CONTEXT
                /\ installs >= call[t].epoch]_vars

C14_Witness ==
    \E t \in Threads :
        /\ pc[t] = "find_frames"
        /\ call[t].epoch = 2
        /\ installs = 2
        /\ call[t].ctx = CONTEXT
        /\ IsSome(CONTEXT)
        /\ freed # {}

\* The lookup of the call thread t made, in the context the call held.
LookupOf(t) == find_frames(Unwrap(call[t].ctx).dwarf, call[t].address)
\* Thread t has returned from an address_to_frame whose lookup yielded at
\* least n frames, the first of them without error.
ResolvedFrames(t, n) ==
    /\ Returned(t, "address_to_frame")
    /\ IsSome(call[t].ctx)
    /\ LookupOf(t).kind = "Output"
    /\ Len(LookupOf(t).items) >= n
    /\ n >= 1 => ~Head(LookupOf(t).items).err

\* What the design says is emitted for a frame: the demangled name, or the
\* raw name when demangling fails, or nothing; the file or nothing; the line
\* and the column, or 0.
Expected(frame) ==
    LET symbol == IF ~IsSome(frame.function) THEN ""
                  ELSE IF IsSome(Unwrap(frame.function).demangled)
                       THEN Unwrap(Unwrap(frame.function).demangled)
                       ELSE Unwrap(frame.function).name
        file == IF IsSome(frame.location) /\ IsSome(Unwrap(frame.location).file)
                THEN Unwrap(Unwrap(frame.location).file) ELSE ""
        line == IF IsSome(frame.location) /\ IsSome(Unwrap(frame.location).line)
                THEN Unwrap(Unwrap(frame.location).line) ELSE 0
        column == IF IsSome(frame.location) /\ IsSome(Unwrap(frame.location).column)
                  THEN Unwrap(Unwrap(frame.location).column) ELSE 0
    IN [cb |-> "on_frame", symbol |-> symbol, location |-> file,
        line |-> line, column |-> column, message |-> ""]

\* C15: when the lookup yields several frames (an inlined call chain,
\* innermost first), address_to_frame calls on_frame once, with the first
\* frame's data; the other frames are not emitted.
C15_InnermostFrameOnly ==
    \A t \in Threads :
        ResolvedFrames(t, 2) =>
            /\ Len(events[t]) = 1
            /\ events[t][1] = Expected(LookupOf(t).items[1].frame)

C15_Witness ==
    \E t \in Threads :
        /\ ResolvedFrames(t, 2)
        /\ events[t] = <<OnFrame("fib::fib", "src/lib.rs", 8, 9)>>
        /\ Expected(LookupOf(t).items[2].frame) = OnFrame("run_fib", "src/lib.rs", 3, 5)

\* C16: for the frame chosen, an absent field is emitted as its default
\* and is no error: line 0, column 0, empty location, empty symbol; a
\* symbol that is present is emitted demangled, or as the raw name when
\* demangling fails.
C16_AbsentFieldsDefault ==
    \A t \in Threads :
        ResolvedFrames(t, 1) =>
            /\ OneFrame(t)
            /\ events[t][1] = Expected(Head(LookupOf(t).items).frame)

C16_Witness ==
    \E t \in Threads :
        /\ ResolvedFrames(t, 1)
        /\ Head(LookupOf(t).items).frame =
               Frame(Func("detour", None), Loc(Some("src/main.rs"), Some(20), None))
        /\ events[t] = <<OnFrame("detour", "src/main.rs", 20, 0)>>

\* The image parses, has the <code> section, and each debug section is
\* either absent or uncompressed with well-formed content.
UncompressedSubset(c) ==
    /\ c.parses
    /\ IsSome(c.code)
    /\ \A i \in 1..Len(DebugSections) : c.sections[i] \in {"absent", "plain"}
    /\ c.units # "malformed"

\* C17: a debug section the container does not have is supplied as empty
\* data and never makes init fail: on a container with the <code> section
\* and any subset of the debug sections, uncompressed, init makes no
\* on_error call, does not trap, builds the context from the sections
\* that are there, and returns the offset.
C17_AbsentSectionsLoadEmpty ==
    \A t \in Threads :
        (call[t].op = "init" /\ UncompressedSubset(call[t].image)) =>
            /\ call[t].status # "trapped"
            /\ events[t] = <<>>
            /\ IsSome(call[t].ctx)
            /\ Unwrap(call[t].ctx).dwarf =
                   [units |-> IF call[t].image.sections[SecInfo] = "absent"
                              THEN "none" ELSE call[t].image.units,
                    lines |-> call[t].image.sections[SecLine] # "absent"]
            /\ call[t].status = "returned" =>
                   call[t].ret = AsI32(Unwrap(call[t].image.code))

C17_Witness ==
    \E t \in Threads :
        /\ Returned(t, "init")
        /\ UncompressedSubset(call[t].image)
        /\ \A i \in 1..Len(DebugSections) : call[t].image.sections[i] = "absent"
        /\ events[t] = <<>>
        /\ CONTEXT = call[t].ctx
        /\ IsSome(CONTEXT)

\* C19: when the lookup says that split DWARF would have to be loaded,
\* address_to_frame fails with "Split DWARF not supported yet"
\* (Unsupported) through one on_error call, emits no frame, and leaves the
\* global context as it was, installed and alive.
C19_SplitDwarfUnsupported ==
    [][\A t \in Threads :
          (/\ pc[t] = "find_frames"
           /\ pc'[t] = "idle"
           /\ IsSome(call[t].ctx)
           /\ LookupOf(t).kind = "Load") =>
              /\ call'[t].status = "returned"
              /\ events'[t] = report(MsgSplitDwarf)
              /\ ErrorClass(MsgSplitDwarf) = "Unsupported"
              /\ CONTEXT' = CONTEXT
              /\ installs' = installs
              /\ freed' = freed
              /\ IsSome(CONTEXT) => strong'[Unwrap(CONTEXT).id] >= 1]_vars

C19_Witness ==
    \E t \in Threads :
        /\ Returned(t, "address_to_frame")
        /\ IsSome(call[t].ctx)
        /\ LookupOf(t).kind = "Load"
        /\ events[t] = report(MsgSplitDwarf)
        /\ CONTEXT = call[t].ctx

\* C20: an address_to_frame holds the read lock only while it copies the
\* reference in the slot, not during the lookup: the context X it obtained
\* stays its own and alive until it finishes, also when an init installs
\* another context Y meanwhile; its result is the lookup in X; and an init
\* that is ready to swap is not kept waiting by calls that are in their
\* lookup.
C20_LookupOutsideLock ==
    /\ [](\A t \in Threads :
            /\ t \in rwlock.readers <=> pc[t] = "get_context"
            /\ (pc[t] = "find_frames" /\ IsSome(call[t].ctx)) =>
                   /\ Unwrap(call[t].ctx).id \notin freed
                   /\ strong[Unwrap(call[t].ctx).id] >=
                          Cardinality({u \in Threads :
                              pc[u] = "find_frames" /\ call[u].ctx = call[t].ctx})
            /\ (/\ pc[t] = "set_context"
                /\ \A u \in Threads \ {t} :
                       pc[u] \in {"idle", "find_frames", "set_context"}) =>
                   ENABLED set_context_lock(t))
    /\ [][\A t \in Threads :
            /\ (pc[t] = "find_frames" /\ pc'[t] = "find_frames") =>
                   call'[t].ctx = call[t].ctx
            /\ (pc[t] = "find_frames" /\ pc'[t] = "idle") =>
                   /\ call'[t].ctx = call[t].ctx
                   /\ events'[t] = address_to_frame(call[t].ctx, call[t].address)]_vars

C20_Witness ==
    \E t \in Threads :
        /\ pc[t] = "find_frames"
        /\ IsSome(call[t].ctx)
        /\ IsSome(CONTEXT)
        /\ Unwrap(CONTEXT).id # Unwrap(call[t].ctx).id
        /\ installs > call[t].epoch
        /\ strong[Unwrap(call[t].ctx).id] = 1
        /\ Unwrap(call[t].ctx).id \notin freed

\* C12: seek(End(k)) sets the cursor to len + k and returns that position,
\* for every k, negative ones included, for which len + k is a position;
\* and the read that follows asks the host for bytes from offset len + k.
C12_SeekFromEnd ==
    /\ (/\ io.op = "seek"
        /\ io.whence = "End"
        /\ reader.len + io.k \in 0..MaxUsize) =>
           /\ io.status = "returned"
           /\ reader.pos = reader.len + io.k
           /\ io.ret = reader.len + io.k
    /\ (/\ io.op = "read"
        /\ IsSome(io.prevEnd)
        /\ reader.len + OrZero(io.prevEnd) \in 0..MaxUsize) =>
           io.src = reader.len + OrZero(io.prevEnd)

\* C18: over any sequence of reads and seeks, a read asks the host for
\* bytes at the cursor and advances the cursor by exactly the number of
\* bytes delivered, and every read and every seek succeeds, wherever the
\* cursor is.
C18_ReaderNeverFails ==
    /\ io.op = "read" =>
           /\ io.status = "returned"
           /\ io.src = io.before
           /\ io.before + io.ret <= MaxUsize => reader.pos = io.before + io.ret
    /\ io.op = "seek" => io.status = "returned"

====
